---- MODULE Spec2Model ----
(***************************************************************************)
(* Model of the two camera scripts of the repository:                      *)
(*   object_tracking.py  - template tracker (main and its helpers)         *)
(*   object_detection.py - single-shot face-box annotator                  *)
(* Match scores are kept in thousandths (0.8 is 800); the score grid has   *)
(* no value ending in 5, so two-decimal formatting has no ties.            *)
(***************************************************************************)
EXTENDS Integers, Sequences, FiniteSets, TLC

VARIABLES prog, pc, camera, windows, out, reads, frame, roi, template,
          result, matched, res_val, res_loc, box, drawn, displayed, key,
          nMatched, faces, detected

vars == <<prog, pc, camera, windows, out, reads, frame, roi, template,
          result, matched, res_val, res_loc, box, drawn, displayed, key,
          nMatched, faces, detected>>

\* ---------------------------------------------------------------- bounds
MaxFrames == 3
MaxFaces == 2

\* ------------------------------------------------------------- constants
MIN_THRESHOLD == 800

\* ---------------------------------------------------------------- inputs
Scores == {-300, 0, 500, 799, 800, 801, 950, 996, 1000}
Locs == {<<0, 0>>, <<10, 20>>, <<7, 0>>}
Rois == {<<0, 0, 0, 0>>, <<10, 20, 0, 30>>, <<10, 20, 30, 0>>,
         <<50, 50, 100, 80>>, <<0, 0, 1, 1>>}
FaceRects == {<<0, 0, 1, 1>>, <<50, 50, 100, 80>>}
Keys == {"q", "other", "none"}

Results == [bound : {TRUE}, val : Scores, loc : Locs]
FaceLists == UNION {[1..n -> FaceRects] : n \in 0..MaxFaces}

\* ---------------------------------------------------------- initial values
NoFrame == [id |-> 0, mirrored |-> FALSE]
NoRoi == <<0, 0, 0, 0>>
NoTemplate == [set |-> FALSE, frame |-> 0, rect |-> NoRoi]
Unbound == [bound |-> FALSE, val |-> 0, loc |-> <<0, 0>>]
NoBox == <<<<0, 0>>, <<0, 0>>>>

MsgNoCamera == "Error: Could not open camera"
MsgBadRoi == "Error: Invalid ROI selection"
MsgCameraError == "Camera error: Failed to read frame from camera"
MsgProcessing == "Processing error"
MsgNoInitialFrame == "Error: Failed to grab initial frame from camera"
ExcReadFailed == "Exception: Failed to read frame from camera"
ExcUnbound == "UnboundLocalError: result"

Logged(m) == \E i \in 1..Len(out) : out[i] = m

\* ------------------------------------------------------- helper functions
\* get_frame: ok is the outcome of camera.read(), n the frames read so far
get_frame(ok, n) ==
    [raised |-> ~ok, frame |-> [id |-> n + 1, mirrored |-> TRUE]]

\* get_template: the slice of the frame given by the ROI
get_template(r, fr) == [set |-> TRUE, frame |-> fr.id, rect |-> r]

get_result_keeps_location(res) ==
    IF res.val < MIN_THRESHOLD THEN <<0, res.loc>> ELSE <<res.val, res.loc>>

get_result_inclusive(res) ==
    IF res.val <= MIN_THRESHOLD THEN <<0, <<0, 0>>>> ELSE <<res.val, res.loc>>

\* get_result: res carries minMaxLoc's max_val and max_loc
get_result(res) ==
    IF res.val < MIN_THRESHOLD THEN <<0, <<0, 0>>>> ELSE <<res.val, res.loc>>

get_tl_and_br_from_roi_origin(max_loc, r) ==
    <<max_loc, <<r[1] + r[3], r[2] + r[4]>>>>

get_tl_and_br_coordinates(max_loc, r) ==
    <<max_loc, <<max_loc[1] + r[3], max_loc[2] + r[4]>>>>

\* f"{max_val:.2f}": the score rounded to hundredths
Fmt2(s) == IF s >= 0 THEN (s + 5) \div 10 ELSE 0 - ((5 - s) \div 10)

\* draw_rectangle: the rectangle and its label put on the frame
draw_rectangle(max_val, top_left, bottom_right) ==
    [tl |-> top_left, br |-> bottom_right,
     text |-> "Match: ", value |-> Fmt2(max_val)]

\* cv2.rectangle of the annotator: a rectangle without a label
face_rectangle(f) ==
    [tl |-> <<f[1], f[2]>>, br |-> <<f[1] + f[3], f[2] + f[4]>>,
     text |-> "", value |-> 0]

\* ------------------------------------------------------------------ Init
Blank ==
    /\ camera = "unopened" /\ windows = {} /\ out = <<>> /\ reads = 0
    /\ frame = NoFrame /\ roi = NoRoi /\ template = NoTemplate
    /\ result = Unbound /\ matched = "none" /\ res_val = 0
    /\ res_loc = <<0, 0>> /\ box = NoBox /\ drawn = <<>>
    /\ displayed = <<>> /\ key = "none" /\ nMatched = 0
    /\ faces = <<>> /\ detected = FALSE

Init ==
    /\ prog \in {"tracker", "detector"}
    /\ pc = IF prog = "tracker" THEN "t_open" ELSE "d_open"
    /\ Blank

\* ------------------------------------------------- tracker: main(), setup
\* camera = cv2.VideoCapture(0); return if it is not opened
TrkOpen ==
    /\ prog = "tracker" /\ pc = "t_open"
    /\ \E ok \in BOOLEAN :
          IF ok
          THEN /\ camera' = "opened"
               /\ pc' = "t_sample"
               /\ out' = out
          ELSE /\ camera' = "unopened"
               /\ out' = Append(out, MsgNoCamera)
               /\ pc' = "done"
    /\ UNCHANGED <<prog, windows, reads, frame, roi, template, result,
                   matched, res_val, res_loc, box, drawn, displayed, key,
                   nMatched, faces, detected>>

\* sample_frame = get_frame(camera): the exception is not caught
TrkSample ==
    /\ prog = "tracker" /\ pc = "t_sample"
    /\ reads' = reads + 1
    /\ \E ok \in BOOLEAN :
          LET r == get_frame(ok, frame.id) IN
          IF r.raised
          THEN /\ out' = Append(out, ExcReadFailed)
               /\ pc' = "crashed"
               /\ frame' = frame
          ELSE /\ frame' = r.frame
               /\ pc' = "t_select"
               /\ out' = out
    /\ UNCHANGED <<prog, camera, windows, roi, template, result, matched,
                   res_val, res_loc, box, drawn, displayed, key, nMatched,
                   faces, detected>>

\* roi = get_roi(sample_frame): selectROI opens "Select ROI", destroyWindow
\* closes it again before get_roi returns
TrkSelectROI ==
    /\ prog = "tracker" /\ pc = "t_select"
    /\ \E r \in Rois : roi' = r
    /\ windows' = (windows \cup {"Select ROI"}) \ {"Select ROI"}
    /\ pc' = "t_validate"
    /\ UNCHANGED <<prog, camera, out, reads, frame, template, result,
                   matched, res_val, res_loc, box, drawn, displayed, key,
                   nMatched, faces, detected>>

TrkValidate_both_zero ==
    /\ prog = "tracker" /\ pc = "t_validate"
    /\ IF roi[3] = 0 /\ roi[4] = 0
       THEN /\ out' = Append(out, MsgBadRoi)
            /\ camera' = "released"
            /\ pc' = "done"
            /\ template' = template
       ELSE /\ template' = get_template(roi, frame)
            /\ pc' = "t_capture"
            /\ UNCHANGED <<out, camera>>
    /\ UNCHANGED <<prog, windows, reads, frame, roi, result, matched,
                   res_val, res_loc, box, drawn, displayed, key, nMatched,
                   faces, detected>>

\* the ROI check, then either the early return or get_template
TrkValidate ==
    /\ prog = "tracker" /\ pc = "t_validate"
    /\ IF roi[3] = 0 \/ roi[4] = 0
       THEN /\ out' = Append(out, MsgBadRoi)
            /\ camera' = "released"
            /\ pc' = "done"
            /\ template' = template
       ELSE /\ template' = get_template(roi, frame)
            /\ pc' = "t_capture"
            /\ UNCHANGED <<out, camera>>
    /\ UNCHANGED <<prog, windows, reads, frame, roi, result, matched,
                   res_val, res_loc, box, drawn, displayed, key, nMatched,
                   faces, detected>>

\* ---------------------------------------------- tracker: main(), the loop
TrkCapture_retry ==
    /\ prog = "tracker" /\ pc = "t_capture"
    /\ reads' = reads + 1
    /\ \E ok \in BOOLEAN :
          LET r == get_frame(ok, frame.id) IN
          IF r.raised
          THEN /\ out' = Append(out, MsgCameraError)
               /\ pc' = IF reads < MaxFrames THEN "t_capture" ELSE "t_cleanup"
               /\ UNCHANGED <<frame, drawn, matched>>
          ELSE /\ frame.id < MaxFrames
               /\ frame' = r.frame
               /\ drawn' = <<>>
               /\ matched' = "none"
               /\ pc' = "t_match"
               /\ out' = out
    /\ UNCHANGED <<prog, camera, windows, roi, template, result, res_val,
                   res_loc, box, displayed, key, nMatched, faces, detected>>

\* frame = get_frame(camera) under try/except: a failure breaks the loop
TrkCapture ==
    /\ prog = "tracker" /\ pc = "t_capture"
    /\ reads' = reads + 1
    /\ \E ok \in BOOLEAN :
          LET r == get_frame(ok, frame.id) IN
          IF r.raised
          THEN /\ out' = Append(out, MsgCameraError)
               /\ pc' = "t_cleanup"
               /\ UNCHANGED <<frame, drawn, matched>>
          ELSE /\ frame.id < MaxFrames
               /\ frame' = r.frame
               /\ drawn' = <<>>
               /\ matched' = "none"
               /\ pc' = "t_match"
               /\ out' = out
    /\ UNCHANGED <<prog, camera, windows, roi, template, result, res_val,
                   res_loc, box, displayed, key, nMatched, faces, detected>>

\* result = cv2.matchTemplate(...) under try/except: a failure is printed
\* and leaves the local variable result as it was
TrkMatch ==
    /\ prog = "tracker" /\ pc = "t_match"
    /\ nMatched' = nMatched + 1
    /\ \/ /\ out' = Append(out, MsgProcessing)
          /\ matched' = "failed"
          /\ result' = result
       \/ /\ \E r \in Results : result' = r
          /\ matched' = "ok"
          /\ out' = out
    /\ pc' = "t_result"
    /\ UNCHANGED <<prog, camera, windows, reads, frame, roi, template,
                   res_val, res_loc, box, drawn, displayed, key, faces,
                   detected>>

\* res_val, res_loc = get_result(result): reading an unbound local raises
TrkGetResult ==
    /\ prog = "tracker" /\ pc = "t_result"
    /\ IF ~result.bound
       THEN /\ out' = Append(out, ExcUnbound)
            /\ pc' = "crashed"
            /\ UNCHANGED <<res_val, res_loc>>
       ELSE /\ res_val' = get_result(result)[1]
            /\ res_loc' = get_result(result)[2]
            /\ pc' = "t_draw"
            /\ out' = out
    /\ UNCHANGED <<prog, camera, windows, reads, frame, roi, template,
                   result, matched, box, drawn, displayed, key, nMatched,
                   faces, detected>>

TrkDraw_strict ==
    /\ prog = "tracker" /\ pc = "t_draw"
    /\ IF res_val > MIN_THRESHOLD
       THEN LET b == get_tl_and_br_coordinates(res_loc, roi) IN
            /\ box' = b
            /\ drawn' = Append(drawn, draw_rectangle(res_val, b[1], b[2]))
       ELSE UNCHANGED <<box, drawn>>
    /\ pc' = "t_show"
    /\ UNCHANGED <<prog, camera, windows, out, reads, frame, roi, template,
                   result, matched, res_val, res_loc, displayed, key,
                   nMatched, faces, detected>>

\* if res_val >= MIN_THRESHOLD: compute the box and draw it
TrkDraw ==
    /\ prog = "tracker" /\ pc = "t_draw"
    /\ IF res_val >= MIN_THRESHOLD
       THEN LET b == get_tl_and_br_coordinates(res_loc, roi) IN
            /\ box' = b
            /\ drawn' = Append(drawn, draw_rectangle(res_val, b[1], b[2]))
       ELSE UNCHANGED <<box, drawn>>
    /\ pc' = "t_show"
    /\ UNCHANGED <<prog, camera, windows, out, reads, frame, roi, template,
                   result, matched, res_val, res_loc, displayed, key,
                   nMatched, faces, detected>>

\* cv2.imshow("Camera Feed", frame)
TrkShow ==
    /\ prog = "tracker" /\ pc = "t_show"
    /\ windows' = windows \cup {"Camera Feed"}
    /\ displayed' = Append(displayed, frame.id)
    /\ pc' = "t_key"
    /\ UNCHANGED <<prog, camera, out, reads, frame, roi, template, result,
                   matched, res_val, res_loc, box, drawn, key, nMatched,
                   faces, detected>>

\* if cv2.waitKey(1) == ord('q'): break
TrkWaitKey ==
    /\ prog = "tracker" /\ pc = "t_key"
    /\ \E k \in Keys :
          /\ key' = k
          /\ pc' = IF k = "q" THEN "t_cleanup" ELSE "t_capture"
    /\ UNCHANGED <<prog, camera, windows, out, reads, frame, roi, template,
                   result, matched, res_val, res_loc, box, drawn, displayed,
                   nMatched, faces, detected>>

\* camera.release(); cv2.destroyAllWindows()
TrkCleanup ==
    /\ prog = "tracker" /\ pc = "t_cleanup"
    /\ camera' = "released"
    /\ windows' = {}
    /\ pc' = "done"
    /\ UNCHANGED <<prog, out, reads, frame, roi, template, result, matched,
                   res_val, res_loc, box, drawn, displayed, key, nMatched,
                   faces, detected>>

\* ------------------------------------------------- face-box annotator
\* cap = cv2.VideoCapture(0), with no check that it opened
DetOpen ==
    /\ prog = "detector" /\ pc = "d_open"
    /\ \E ok \in BOOLEAN : camera' = IF ok THEN "opened" ELSE "unopened"
    /\ pc' = "d_read"
    /\ UNCHANGED <<prog, windows, out, reads, frame, roi, template, result,
                   matched, res_val, res_loc, box, drawn, displayed, key,
                   nMatched, faces, detected>>

DetRead_falls_through ==
    /\ prog = "detector" /\ pc = "d_read"
    /\ reads' = reads + 1
    /\ \E ret \in BOOLEAN :
          /\ camera = "unopened" => ~ret
          /\ IF ~ret
             THEN /\ out' = Append(out, MsgNoInitialFrame)
                  /\ pc' = "d_mirror"
                  /\ frame' = frame
             ELSE /\ frame' = [id |-> frame.id + 1, mirrored |-> FALSE]
                  /\ pc' = "d_mirror"
                  /\ out' = out
    /\ UNCHANGED <<prog, camera, windows, roi, template, result, matched,
                   res_val, res_loc, box, drawn, displayed, key, nMatched,
                   faces, detected>>

\* ret, frame = cap.read(); if not ret: print and exit()
DetRead ==
    /\ prog = "detector" /\ pc = "d_read"
    /\ reads' = reads + 1
    /\ \E ret \in BOOLEAN :
          /\ camera = "unopened" => ~ret
          /\ IF ~ret
             THEN /\ out' = Append(out, MsgNoInitialFrame)
                  /\ pc' = "done"
                  /\ frame' = frame
             ELSE /\ frame' = [id |-> frame.id + 1, mirrored |-> FALSE]
                  /\ pc' = "d_mirror"
                  /\ out' = out
    /\ UNCHANGED <<prog, camera, windows, roi, template, result, matched,
                   res_val, res_loc, box, drawn, displayed, key, nMatched,
                   faces, detected>>

\* mirrored_frame = cv2.flip(frame, 1)
DetMirror ==
    /\ prog = "detector" /\ pc = "d_mirror"
    /\ frame' = [frame EXCEPT !.mirrored = TRUE]
    /\ pc' = "d_detect"
    /\ UNCHANGED <<prog, camera, windows, out, reads, roi, template, result,
                   matched, res_val, res_loc, box, drawn, displayed, key,
                   nMatched, faces, detected>>

\* gray = cvtColor(...); faces = face_cascade.detectMultiScale(gray, ...)
DetDetect ==
    /\ prog = "detector" /\ pc = "d_detect"
    /\ \E fs \in FaceLists : faces' = fs
    /\ detected' = TRUE
    /\ pc' = "d_draw"
    /\ UNCHANGED <<prog, camera, windows, out, reads, frame, roi, template,
                   result, matched, res_val, res_loc, box, drawn, displayed,
                   key, nMatched>>

\* for (x, y, w, h) in faces: cv2.rectangle(...)
DetDraw ==
    /\ prog = "detector" /\ pc = "d_draw"
    /\ drawn' = [i \in 1..Len(faces) |-> face_rectangle(faces[i])]
    /\ pc' = "d_show"
    /\ UNCHANGED <<prog, camera, windows, out, reads, frame, roi, template,
                   result, matched, res_val, res_loc, box, displayed, key,
                   nMatched, faces, detected>>

\* cv2.imshow("Face Detection", mirrored_frame)
DetShow ==
    /\ prog = "detector" /\ pc = "d_show"
    /\ windows' = windows \cup {"Face Detection"}
    /\ displayed' = Append(displayed, frame.id)
    /\ pc' = "d_wait"
    /\ UNCHANGED <<prog, camera, out, reads, frame, roi, template, result,
                   matched, res_val, res_loc, box, drawn, key, nMatched,
                   faces, detected>>

\* cv2.waitKey(0): blocks until some key is pressed
DetWaitKey ==
    /\ prog = "detector" /\ pc = "d_wait"
    /\ \E k \in Keys \ {"none"} : key' = k
    /\ pc' = "d_cleanup"
    /\ UNCHANGED <<prog, camera, windows, out, reads, frame, roi, template,
                   result, matched, res_val, res_loc, box, drawn, displayed,
                   nMatched, faces, detected>>

\* cap.release(); cv2.destroyAllWindows()
DetCleanup ==
    /\ prog = "detector" /\ pc = "d_cleanup"
    /\ camera' = "released"
    /\ windows' = {}
    /\ pc' = "done"
    /\ UNCHANGED <<prog, out, reads, frame, roi, template, result, matched,
                   res_val, res_loc, box, drawn, displayed, key, nMatched,
                   faces, detected>>

\* ------------------------------------------------------- specifications
Next ==
    \/ TrkOpen \/ TrkSample \/ TrkSelectROI \/ TrkValidate \/ TrkCapture
    \/ TrkMatch \/ TrkGetResult \/ TrkDraw \/ TrkShow \/ TrkWaitKey
    \/ TrkCleanup
    \/ DetOpen \/ DetRead \/ DetMirror \/ DetDetect \/ DetDraw \/ DetShow
    \/ DetWaitKey \/ DetCleanup

Spec == Init /\ [][Next]_vars

\* The two pure helpers applied to every input of the bounded sets.
FnInit ==
    /\ prog = "functions" /\ pc = "f_result"
    /\ camera = "unopened" /\ windows = {} /\ out = <<>> /\ reads = 0
    /\ frame = NoFrame /\ template = NoTemplate /\ matched = "none"
    /\ res_val = 0 /\ res_loc = <<0, 0>> /\ box = NoBox /\ drawn = <<>>
    /\ displayed = <<>> /\ key = "none" /\ nMatched = 0
    /\ faces = <<>> /\ detected = FALSE
    /\ result \in Results
    /\ roi \in Rois

FnGetResult ==
    /\ prog = "functions" /\ pc = "f_result"
    /\ res_val' = get_result(result)[1]
    /\ res_loc' = get_result(result)[2]
    /\ pc' = "f_coords"
    /\ UNCHANGED <<prog, camera, windows, out, reads, frame, roi, template,
                   result, matched, box, drawn, displayed, key, nMatched,
                   faces, detected>>

FnCoordinates ==
    /\ prog = "functions" /\ pc = "f_coords"
    /\ box' = get_tl_and_br_coordinates(result.loc, roi)
    /\ pc' = "f_done"
    /\ UNCHANGED <<prog, camera, windows, out, reads, frame, roi, template,
                   result, matched, res_val, res_loc, drawn, displayed, key,
                   nMatched, faces, detected>>

FnNext == FnGetResult \/ FnCoordinates

FnSpec == FnInit /\ [][FnNext]_vars

\* ------------------------------------------------------------ properties
Exited == pc \in {"done", "crashed"}
InvalidRoi == roi[3] = 0 \/ roi[4] = 0
RoiSelected ==
    prog = "tracker" /\ frame.id >= 1 /\ pc \notin {"t_sample", "t_select"}
ShownThisFrame == Cardinality({i \in 1..Len(displayed) : displayed[i] = frame.id})
AfterLoopBody == {"t_key", "t_capture", "t_cleanup", "done"}

\* C1: in both programs, whenever the program has ended after the camera
\* was acquired, the camera has been released and no window is open.
C1_ReleasedOnEveryExit ==
    (Exited /\ camera # "unopened") => (camera = "released" /\ windows = {})

\* C2: when template matching fails on a frame, the failure is logged, the
\* program does not stop, no box is drawn on that frame, and the frame is
\* displayed before the exit-key check.
C2_MatchFailureSkipsBox ==
    (prog = "tracker" /\ matched = "failed") =>
        /\ Logged(MsgProcessing)
        /\ pc # "crashed"
        /\ drawn = <<>>
        /\ pc \in AfterLoopBody => ShownThisFrame = 1

\* C3: once a camera read has failed in the tracking loop, the loop has
\* been left for cleanup, and from then on nothing is read, captured,
\* matched, drawn or displayed.
C3_ReadFailureEndsLoop ==
    /\ [](Logged(MsgCameraError) => pc \in {"t_cleanup", "done"})
    /\ [][Logged(MsgCameraError) =>
            /\ reads' = reads /\ frame' = frame /\ nMatched' = nMatched
            /\ drawn' = drawn /\ displayed' = displayed]_vars

C3_Witness ==
    /\ Logged(MsgCameraError) /\ pc = "done" /\ camera = "released"
    /\ Len(displayed) >= 1 /\ reads = frame.id + 1

\* C4: with a selected ROI of width 0 or height 0 no template is
\* extracted, the loop is never entered (no further capture, match or
\* display), and the program ends having reported the invalid ROI.
C4_InvalidRoiAborts ==
    (RoiSelected /\ InvalidRoi) =>
        /\ template = NoTemplate
        /\ pc \in {"t_validate", "done"}
        /\ reads = 1 /\ nMatched = 0 /\ displayed = <<>>
        /\ pc = "done" => Logged(MsgBadRoi)

C4_Witness ==
    /\ prog = "tracker" /\ pc = "done" /\ roi = <<10, 20, 0, 30>>
    /\ Logged(MsgBadRoi) /\ template = NoTemplate

\* C5: for every score below 0.8 and every location, get_result returns
\* (0.0, (0, 0)).
C5_BelowThresholdSentinel ==
    (prog = "functions" /\ pc # "f_result" /\ result.val < 800) =>
        (res_val = 0 /\ res_loc = <<0, 0>>)

C5_Witness ==
    /\ prog = "functions" /\ pc = "f_coords"
    /\ result.val = 799 /\ result.loc = <<10, 20>>
    /\ res_val = 0 /\ res_loc = <<0, 0>>

\* C6: for every score of at least 0.8 (0.8 itself included) and every
\* location, get_result returns the score and the location unchanged.
C6_AtThresholdUnchanged ==
    (prog = "functions" /\ pc # "f_result" /\ result.val >= 800) =>
        (res_val = result.val /\ res_loc = result.loc)

C6_Witness ==
    /\ prog = "functions" /\ pc = "f_coords"
    /\ result.val = 800 /\ result.loc = <<10, 20>>
    /\ res_val = 800 /\ res_loc = <<10, 20>>

\* C7: for an ROI with positive width and height, the box is the match
\* location and the match location plus (width, height), whatever the
\* ROI's x and y; ROI (50,50,100,80) at (10,20) gives (10,20), (110,100).
C7_BoxFromLocationAndSize ==
    (prog = "functions" /\ pc = "f_done" /\ roi[3] > 0 /\ roi[4] > 0) =>
        /\ box[1] = result.loc
        /\ box[2][1] - box[1][1] = roi[3]
        /\ box[2][2] - box[1][2] = roi[4]
        /\ (roi = <<50, 50, 100, 80>> /\ result.loc = <<10, 20>>) =>
               box = <<<<10, 20>>, <<110, 100>>>>

C7_Witness ==
    /\ prog = "functions" /\ pc = "f_done"
    /\ roi = <<50, 50, 100, 80>> /\ result.loc = <<10, 20>>
    /\ box = <<<<10, 20>>, <<110, 100>>>>

\* C8: in the annotator, after a failed initial read the program has
\* ended with the error reported, the read was made once, and nothing
\* was mirrored, detected, drawn, displayed or waited for.
C8_NoFrameExitsAtOnce ==
    (prog = "detector" /\ Logged(MsgNoInitialFrame)) =>
        /\ pc = "done" /\ reads = 1
        /\ ~frame.mirrored /\ ~detected
        /\ drawn = <<>> /\ displayed = <<>> /\ windows = {}
        /\ key = "none"

C8_Witness ==
    /\ prog = "detector" /\ camera = "opened" /\ pc = "done"
    /\ Logged(MsgNoInitialFrame) /\ reads = 1

\* C9: once in the tracking loop, the program has ended only if 'q' was
\* pressed or a camera read failed, and after either of these it is in
\* cleanup or has ended.
C9_OnlyKeyOrReadFailureEnds ==
    (prog = "tracker" /\ template.set) =>
        /\ Exited => (key = "q" \/ Logged(MsgCameraError))
        /\ (key = "q" \/ Logged(MsgCameraError)) =>
               pc \in {"t_cleanup", "done"}

\* C10: on a frame that was captured and matched, a box labelled with the
\* score to two decimals is on the frame exactly when the score is at
\* least 0.8, it is the box of that frame's own match location and the
\* ROI size, and the frame is displayed exactly once in the iteration.
C10_BoxIffAtThreshold ==
    (prog = "tracker" /\ matched = "ok") =>
        /\ pc \in {"t_show"} \cup AfterLoopBody =>
              IF result.val >= 800
              THEN /\ Len(drawn) = 1
                   /\ drawn[1].tl = result.loc
                   /\ drawn[1].br = <<result.loc[1] + roi[3],
                                      result.loc[2] + roi[4]>>
                   /\ drawn[1].text = "Match: "
                   /\ 10 * drawn[1].value - 5 <= result.val
                   /\ result.val < 10 * drawn[1].value + 5
              ELSE drawn = <<>>
        /\ pc \in AfterLoopBody => ShownThisFrame = 1
        /\ pc \in {"t_result", "t_draw", "t_show"} => ShownThisFrame = 0

C10_Witness ==
    /\ prog = "tracker" /\ matched = "ok" /\ pc = "t_key" /\ frame.id = 3
    /\ result.val = 800 /\ result.loc = <<10, 20>>
    /\ roi = <<50, 50, 100, 80>>
    /\ Len(drawn) = 1 /\ drawn[1].value = 80
    /\ drawn[1].br = <<110, 100>>
====
